---- MODULE Spec2Model ----
(***************************************************************************)
(* IsoML: the IsoKernel estimator (src/IsoML/kernel/_isokernel.py), the    *)
(* ensemble builders it delegates to (IK_ANNE, IK_INNE, IK_IForest) and    *)
(* the IKDC clustering engine.                                             *)
(*                                                                         *)
(* A point is one integer coordinate (n_features = 1); a dataset is a      *)
(* sequence of points.  A float is an exact fraction num/den with den > 0. *)
(* A method call is an operator from the object and its arguments to the   *)
(* object's attributes after the call together with what the call returned *)
(* or raised.  ever_fitted records that some fit call has returned; ikdc   *)
(* is the IKDC estimator that owns the IsoKernel, when there is one.       *)
(***************************************************************************)
EXTENDS Integers, Sequences, FiniteSets, TLC

VARIABLES method, n_estimators, max_samples,
          max_samples_, iso_kernel_, is_fitted_,
          ever_fitted, last, ikdc

vars == <<method, n_estimators, max_samples,
          max_samples_, iso_kernel_, is_fitted_, ever_fitted, last, ikdc>>

params == <<method, n_estimators, max_samples>>

attrs == <<max_samples_, iso_kernel_, is_fitted_>>

(***************************************************************************)
(* Bounds of the model and constants of the program.                       *)
(***************************************************************************)
MaxLen == 2

MaxEstimators == 2

AutoCap == 16

\* Coordinates of training points and of query points: the query point 0
\* is a training point, the query point 1 lies between, and at equal
\* distance from, the training points.
FitCoords == {0, 2}

QueryCoords == {0, 1}

\* Every sequence over S of length lo..hi.
SeqsOf(S, lo, hi) ==
    UNION {[1..n -> S] : n \in lo..hi}

Abs(a) ==
    IF a < 0 THEN -a ELSE a

Dist(a, b) ==
    Abs(a - b)

MinOf(S) ==
    CHOOSE a \in S : \A b \in S : a <= b

MaxOf(S) ==
    CHOOSE a \in S : \A b \in S : a >= b

(***************************************************************************)
(* Values of the max_samples parameter: a string, an integer or a float.   *)
(***************************************************************************)
MSStr(s) ==
    [kind |-> "str", s |-> s, i |-> 0, num |-> 0, den |-> 1]

MSInt(i) ==
    [kind |-> "int", s |-> "", i |-> i, num |-> 0, den |-> 1]

MSFloat(num, den) ==
    [kind |-> "float", s |-> "", i |-> 0, num |-> num, den |-> den]

\* 0.0 < f <= 1.0 for f = num/den, den > 0.
InUnitInterval(ms) ==
    0 < ms.num /\ ms.num <= ms.den

\* int(f * n_samples): truncation toward zero.
IntOfProduct(ms, n) ==
    IF ms.num * n >= 0 THEN (ms.num * n) \div ms.den
    ELSE -((-(ms.num * n)) \div ms.den)

\* The resolution as the docstring has it: "auto" is min(8, n_samples).
ResolveMaxSamplesSmallAuto(ms, n) ==
    IF ms.kind = "str"
    THEN IF ms.s = "auto"
         THEN [err |-> "ok", v |-> IF 8 < n THEN 8 ELSE n, warned |-> FALSE]
         ELSE [err |-> "ValueError:max_samples_str", v |-> 0, warned |-> FALSE]
    ELSE IF ms.kind = "int"
    THEN IF ms.i > n
         THEN [err |-> "ok", v |-> n, warned |-> TRUE]
         ELSE [err |-> "ok", v |-> ms.i, warned |-> FALSE]
    ELSE IF ~InUnitInterval(ms)
         THEN [err |-> "ValueError:max_samples_range", v |-> 0, warned |-> FALSE]
         ELSE [err |-> "ok", v |-> IntOfProduct(ms, n), warned |-> FALSE]

\* A resolution that raises a value below 1 to 1.
ResolveMaxSamplesAtLeastOne(ms, n) ==
    IF ms.kind = "str"
    THEN IF ms.s = "auto"
         THEN [err |-> "ok", v |-> IF AutoCap < n THEN AutoCap ELSE n, warned |-> FALSE]
         ELSE [err |-> "ValueError:max_samples_str", v |-> 0, warned |-> FALSE]
    ELSE IF ms.kind = "int"
    THEN IF ms.i > n
         THEN [err |-> "ok", v |-> n, warned |-> TRUE]
         ELSE [err |-> "ok", v |-> IF ms.i < 1 THEN 1 ELSE ms.i, warned |-> FALSE]
    ELSE IF ~InUnitInterval(ms)
         THEN [err |-> "ValueError:max_samples_range", v |-> 0, warned |-> FALSE]
         ELSE [err |-> "ok",
               v |-> IF IntOfProduct(ms, n) < 1 THEN 1 ELSE IntOfProduct(ms, n),
               warned |-> FALSE]

\* A resolution that takes the float range as the open interval (0, 1).
ResolveMaxSamplesOpenAtOne(ms, n) ==
    IF ms.kind = "str"
    THEN IF ms.s = "auto"
         THEN [err |-> "ok", v |-> IF AutoCap < n THEN AutoCap ELSE n, warned |-> FALSE]
         ELSE [err |-> "ValueError:max_samples_str", v |-> 0, warned |-> FALSE]
    ELSE IF ms.kind = "int"
    THEN IF ms.i > n
         THEN [err |-> "ok", v |-> n, warned |-> TRUE]
         ELSE [err |-> "ok", v |-> ms.i, warned |-> FALSE]
    ELSE IF ~(0 < ms.num /\ ms.num < ms.den)
         THEN [err |-> "ValueError:max_samples_range", v |-> 0, warned |-> FALSE]
         ELSE [err |-> "ok", v |-> IntOfProduct(ms, n), warned |-> FALSE]

\* IsoKernel.fit, the resolution of max_samples: the exception raised (or
\* "ok"), the resolved value, and whether the clamp warning was emitted.
ResolveMaxSamples(ms, n) ==
    IF ms.kind = "str"
    THEN IF ms.s = "auto"
         THEN [err |-> "ok", v |-> IF AutoCap < n THEN AutoCap ELSE n, warned |-> FALSE]
         ELSE [err |-> "ValueError:max_samples_str", v |-> 0, warned |-> FALSE]
    ELSE IF ms.kind = "int"
    THEN IF ms.i > n
         THEN [err |-> "ok", v |-> n, warned |-> TRUE]
         ELSE [err |-> "ok", v |-> ms.i, warned |-> FALSE]
    ELSE IF ~InUnitInterval(ms)
         THEN [err |-> "ValueError:max_samples_range", v |-> 0, warned |-> FALSE]
         ELSE [err |-> "ok", v |-> IntOfProduct(ms, n), warned |-> FALSE]

(***************************************************************************)
(* The ensemble builders IK_ANNE, IK_INNE and IK_IForest.                  *)
(***************************************************************************)
Methods == {"anne", "inne", "iforest"}

\* A tree of the isolation forest: <<>> is a leaf, <<s, l, r>> a node that
\* sends x <= s to l and x > s to r.
Leaf == <<>>

RECURSIVE CeilLog2(_)
CeilLog2(n) ==
    IF n <= 1 THEN 0 ELSE 1 + CeilLog2((n + 1) \div 2)

HeightLimit(psi) ==
    CeilLog2(psi)

RECURSIVE Trees(_, _)
Trees(S, h) ==
    IF Cardinality(S) <= 1 \/ h = 0
    THEN {Leaf}
    ELSE UNION {{<<s, l, r>> : l \in Trees({v \in S : v <= s}, h - 1),
                               r \in Trees({v \in S : v > s}, h - 1)}
                : s \in MinOf(S)..(MaxOf(S) - 1)}

RECURSIVE LeafCount(_)
LeafCount(tr) ==
    IF tr = Leaf THEN 1 ELSE LeafCount(tr[2]) + LeafCount(tr[3])

RECURSIVE CellTree(_, _)
CellTree(tr, x) ==
    IF tr = Leaf THEN 1
    ELSE IF x <= tr[1] THEN CellTree(tr[2], x)
    ELSE LeafCount(tr[2]) + CellTree(tr[3], x)

\* The subsample of size psi of n points drawn from index `start`: psi
\* consecutive indices, wrapping around (no index twice).
Subsample(n, psi, start) ==
    [j \in 1..psi |-> ((start + j - 2) % n) + 1]

\* The draws of an ensemble of t estimators on n points: estimator e draws
\* from the start derived from the seed <<a, b>> as a + (e - 1) * b.  For
\* t <= 2 these are all the combinations of starts.
Draws(n, t) ==
    {[e \in 1..t |-> ((a + (e - 1) * b) % n) + 1] : a \in 0..(n - 1), b \in 0..(n - 1)}

Partition(kind, centers, tree) ==
    [kind |-> kind, centers |-> centers, tree |-> tree]

\* The partitions one estimator can be fitted to on the subsample of X
\* drawn from `start`.
Partitions(m, X, psi, start) ==
    LET w == Subsample(Len(X), psi, start)
        c == [j \in 1..psi |-> X[w[j]]]
    IN  IF m = "iforest"
        THEN {Partition(m, <<>>, tr)
                : tr \in Trees({c[j] : j \in 1..psi}, HeightLimit(psi))}
        ELSE {Partition(m, c, Leaf)}

\* ANNE: the index of the nearest center, ties to the lowest index.
CellANNE(centers, x) ==
    CHOOSE j \in 1..Len(centers) :
        \A i \in 1..Len(centers) :
            \/ Dist(x, centers[j]) < Dist(x, centers[i])
            \/ Dist(x, centers[j]) = Dist(x, centers[i]) /\ j <= i

\* INNE: the isolation radius of center j is the distance to its nearest
\* neighbour in the subsample (0 when it has none).
Radius(centers, j) ==
    LET others == {Dist(centers[j], centers[i]) : i \in 1..Len(centers) \ {j}}
    IN  IF others = {} THEN 0 ELSE MinOf(others)

\* INNE: the nearest center whose ball holds x, else the nearest center.
CellINNE(centers, x) ==
    LET cover == {j \in 1..Len(centers) : Dist(x, centers[j]) <= Radius(centers, j)}
        cand  == IF cover = {} THEN 1..Len(centers) ELSE cover
    IN  CHOOSE j \in cand :
            \A i \in cand :
                \/ Dist(x, centers[j]) < Dist(x, centers[i])
                \/ Dist(x, centers[j]) = Dist(x, centers[i]) /\ j <= i

Width(p) ==
    IF p.kind = "iforest" THEN LeafCount(p.tree) ELSE Len(p.centers)

CellOf(p, x) ==
    IF p.kind = "iforest" THEN CellTree(p.tree, x)
    ELSE IF p.kind = "inne" THEN CellINNE(p.centers, x)
    ELSE CellANNE(p.centers, x)

OneHot(w, c) ==
    [b \in 1..w |-> IF b = c THEN 1 ELSE 0]

RECURSIVE EmbedRow(_, _)
EmbedRow(parts, x) ==
    IF parts = <<>> THEN <<>>
    ELSE OneHot(Width(Head(parts)), CellOf(Head(parts), x)) \o EmbedRow(Tail(parts), x)

\* The attribute iso_kernel_: unset, or an ensemble builder object.
NoKernel ==
    [set |-> FALSE, fitted |-> FALSE, kind |-> "", n_estimators |-> 0,
     max_samples |-> 0, parts |-> <<>>]

NewEnsemble(kind, t, psi) ==
    [set |-> TRUE, fitted |-> FALSE, kind |-> kind, n_estimators |-> t,
     max_samples |-> psi, parts |-> <<>>]

\* The builder's fit(X) raises on a non-positive subsample or ensemble size.
EnsembleFitFails(k) ==
    k.max_samples <= 0 \/ k.n_estimators <= 0

\* The sequences that take element e from the set sets[e].
RECURSIVE Choices(_)
Choices(sets) ==
    IF sets = <<>> THEN {<<>>}
    ELSE {<<h>> \o r : h \in Head(sets), r \in Choices(Tail(sets))}

\* The builder's fit(X): the fitted ensembles it can end in.
EnsembleFit(k, X) ==
    UNION {{[k EXCEPT !.fitted = TRUE, !.parts = ps]
              : ps \in Choices([e \in 1..k.n_estimators |->
                                  Partitions(k.kind, X, k.max_samples, d[e])])}
           : d \in Draws(Len(X), k.n_estimators)}

\* The builder's transform(X).
EnsembleTransform(k, X) ==
    [i \in 1..Len(X) |-> EmbedRow(k.parts, X[i])]

(***************************************************************************)
(* IsoKernel.                                                              *)
(***************************************************************************)
Unset ==
    [set |-> FALSE, v |-> 0]

Value(v) ==
    [set |-> TRUE, v |-> v]

Self ==
    [method |-> method, n_estimators |-> n_estimators, max_samples |-> max_samples,
     max_samples_ |-> max_samples_, iso_kernel_ |-> iso_kernel_,
     is_fitted_ |-> is_fitted_]

\* sklearn's check_array: at least one sample.
CheckArray(X) ==
    Len(X) >= 1

\* sklearn's check_is_fitted(self): some attribute with a trailing underscore.
CheckIsFitted(self) ==
    self.max_samples_.set \/ self.iso_kernel_.set \/ self.is_fitted_

\* What a call leaves and returns: the attributes after it, the exception
\* ("ok" when it returned), and its results.
Call(op, X, self, outcome) ==
    [op |-> op, X |-> X, n |-> Len(X), outcome |-> outcome,
     max_samples_ |-> self.max_samples_, iso_kernel_ |-> self.iso_kernel_,
     is_fitted_ |-> self.is_fitted_,
     warned |-> FALSE, built |-> FALSE, trained |-> FALSE,
     embed |-> <<>>, sim |-> <<>>]

\* IsoKernel.fit(X): every way the call can end.
FitCall(self, X) ==
    LET c0 == [Call("fit", X, self, "ok") EXCEPT !.X = <<>>]
        r  == ResolveMaxSamples(self.max_samples, Len(X))
    IN  IF ~CheckArray(X)
        THEN {[c0 EXCEPT !.outcome = "ValueError:input"]}
        ELSE IF r.err # "ok"
        THEN {[c0 EXCEPT !.outcome = r.err]}
        ELSE LET c1 == [c0 EXCEPT !.max_samples_ = Value(r.v), !.warned = r.warned]
             IN  IF self.method \notin Methods
                 THEN {[c1 EXCEPT !.outcome = "ValueError:method"]}
                 ELSE LET k  == NewEnsemble(self.method, self.n_estimators, r.v)
                          c2 == [c1 EXCEPT !.iso_kernel_ = k, !.built = TRUE]
                      IN  IF EnsembleFitFails(k)
                          THEN {[c2 EXCEPT !.outcome = "ValueError:ensemble"]}
                          ELSE {[c2 EXCEPT !.iso_kernel_ = kf, !.trained = TRUE,
                                           !.is_fitted_ = TRUE]
                                  : kf \in EnsembleFit(k, X)}

\* transform that relies on check_is_fitted alone.
TransformCallTrusting(self, X) ==
    LET c0 == Call("transform", X, self, "ok")
    IN  IF ~CheckIsFitted(self)
        THEN [c0 EXCEPT !.outcome = "NotFittedError"]
        ELSE IF ~CheckArray(X)
        THEN [c0 EXCEPT !.outcome = "ValueError:input"]
        ELSE [c0 EXCEPT !.embed = EnsembleTransform(self.iso_kernel_, X)]

\* transform that returns each estimator's cell index in place of its one-hot
\* block.
TransformCallCellIndex(self, X) ==
    LET c0 == Call("transform", X, self, "ok")
    IN  IF ~CheckIsFitted(self)
        THEN [c0 EXCEPT !.outcome = "NotFittedError"]
        ELSE IF ~CheckArray(X)
        THEN [c0 EXCEPT !.outcome = "ValueError:input"]
        ELSE IF ~self.iso_kernel_.set
        THEN [c0 EXCEPT !.outcome = "AttributeError"]
        ELSE IF ~self.iso_kernel_.fitted
        THEN [c0 EXCEPT !.outcome = "NotFittedError"]
        ELSE [c0 EXCEPT !.embed =
                 [i \in 1..Len(X) |->
                    [e \in 1..Len(self.iso_kernel_.parts) |->
                       CellOf(self.iso_kernel_.parts[e], X[i])]]]

\* transform that stores the size of its input in max_samples_.
TransformCallStoring(self, X) ==
    LET c0 == Call("transform", X, self, "ok")
    IN  IF ~CheckIsFitted(self)
        THEN [c0 EXCEPT !.outcome = "NotFittedError"]
        ELSE IF ~CheckArray(X)
        THEN [c0 EXCEPT !.outcome = "ValueError:input"]
        ELSE IF ~self.iso_kernel_.set
        THEN [c0 EXCEPT !.outcome = "AttributeError"]
        ELSE IF ~self.iso_kernel_.fitted
        THEN [c0 EXCEPT !.outcome = "NotFittedError"]
        ELSE [c0 EXCEPT !.embed = EnsembleTransform(self.iso_kernel_, X),
                        !.max_samples_ = Value(Len(X))]

\* IsoKernel.transform(X).
TransformCall(self, X) ==
    LET c0 == Call("transform", X, self, "ok")
    IN  IF ~CheckIsFitted(self)
        THEN [c0 EXCEPT !.outcome = "NotFittedError"]
        ELSE IF ~CheckArray(X)
        THEN [c0 EXCEPT !.outcome = "ValueError:input"]
        ELSE IF ~self.iso_kernel_.set
        THEN [c0 EXCEPT !.outcome = "AttributeError"]
        ELSE IF ~self.iso_kernel_.fitted
        THEN [c0 EXCEPT !.outcome = "NotFittedError"]
        ELSE [c0 EXCEPT !.embed = EnsembleTransform(self.iso_kernel_, X)]

RECURSIVE Inner(_, _)
Inner(a, b) ==
    IF a = <<>> \/ b = <<>> THEN 0
    ELSE Head(a) * Head(b) + Inner(Tail(a), Tail(b))

\* similarity that divides by the width of the embedding.
SimilarityCallByWidth(self, X) ==
    LET t == TransformCall(self, X)
    IN  IF t.outcome # "ok"
        THEN [t EXCEPT !.op = "similarity"]
        ELSE [t EXCEPT !.op = "similarity",
                       !.sim = [i \in 1..Len(X) |->
                                  [j \in 1..Len(X) |->
                                     [num |-> Inner(t.embed[i], t.embed[j]),
                                      den |-> Len(t.embed[1])]]]]

\* IsoKernel.similarity(X): entry (i, j) is the fraction num/den.
SimilarityCall(self, X) ==
    LET t == TransformCall(self, X)
    IN  IF t.outcome # "ok"
        THEN [t EXCEPT !.op = "similarity"]
        ELSE [t EXCEPT !.op = "similarity",
                       !.sim = [i \in 1..Len(X) |->
                                  [j \in 1..Len(X) |->
                                     [num |-> Inner(t.embed[i], t.embed[j]),
                                      den |-> self.n_estimators]]]]

(***************************************************************************)
(* IKDC: the estimator's parameters and clustering state.  pc is the       *)
(* position of fit_predict: "new" before the call, then "seeding",         *)
(* "assigning", "recentering", "converged", and "done" or "failed" once it *)
(* has returned or raised.  history holds the labels after each assignment *)
(* pass of the refinement loop.                                            *)
(***************************************************************************)
MaxPoints == 2

MaxK == 2

IterCap == 2

IKDCState(pc, k, kn, v, n_init_samples, is_post_process) ==
    [pc |-> pc, k |-> k, kn |-> kn, v |-> v, n_init_samples |-> n_init_samples,
     is_post_process |-> is_post_process,
     n_samples |-> 0, sim |-> <<>>, centroids |-> <<>>,
     labels_ |-> <<>>, clusters_ |-> <<>>, n_it |-> 0, history |-> <<>>]

NoIKDC ==
    IKDCState("none", 0, 0, [num |-> 0, den |-> 1], 0, FALSE)

Frac(num, den) ==
    [num |-> num, den |-> den]

\* The sum of the m largest values of f over D.
RECURSIVE SumLargest(_, _, _)
SumLargest(f, D, m) ==
    IF m = 0 \/ D = {} THEN 0
    ELSE LET j == CHOOSE j \in D : \A i \in D : f[j] >= f[i]
         IN  f[j] + SumLargest(f, D \ {j}, m - 1)

\* The similarity of points i and j, in units of 1 / n_estimators.
SimOf(S, i, j) ==
    S[i][j].num

\* The density of point i among `members`: the average similarity to its kn
\* most similar other members, kn clamped to the number there are.
Density(S, members, kn, i) ==
    LET D   == members \ {i}
        cnt == IF kn < Cardinality(D) THEN kn ELSE Cardinality(D)
    IN  IF cnt = 0 THEN Frac(0, 1)
        ELSE Frac(SumLargest([j \in D |-> SimOf(S, i, j)], D, cnt), cnt)

FracLess(a, b) ==
    a.num * b.den < b.num * a.den

\* a < v * b.
BelowShare(a, v, b) ==
    a.num * v.den * b.den < v.num * b.num * a.den

MaxDensity(dens, D) ==
    dens[CHOOSE j \in D : \A i \in D : ~FracLess(dens[j], dens[i])]

\* Two points no estimator separates.
Degenerate(S, i, j) ==
    SimOf(S, i, j) = S[i][j].den

\* The kernel distance 1 - similarity, in units of 1 / n_estimators.
KernelDist(S, i, j) ==
    S[i][j].den - SimOf(S, i, j)

MinOver(f, D) ==
    f[CHOOSE j \in D : \A i \in D : f[j] <= f[i]]

\* The candidate pools of seed selection: n_init_samples of the points.
Pools(n, n_init) ==
    {P \in SUBSET (1..n) : Cardinality(P) = IF n_init < n THEN n_init ELSE n}

\* Seed selection by density alone: any pool point of density not below v
\* times the highest, chosen or not, separated from the chosen ones or not.
RECURSIVE ExtendSeedsAnyPoint(_, _, _, _, _, _)
ExtendSeedsAnyPoint(S, dens, v, pool, k, chosen) ==
    IF Len(chosen) = k THEN {chosen}
    ELSE LET top  == MaxDensity(dens, pool)
             cand == {i \in pool : ~BelowShare(dens[i], v, top)}
         IN  UNION {ExtendSeedsAnyPoint(S, dens, v, pool, k, Append(chosen, i))
                      : i \in cand}

\* Greedy seed selection continued from `chosen`: the next centroid is a
\* pool point that no estimator fails to separate from the chosen ones, of
\* density not below v times the highest, and farthest from them.
RECURSIVE ExtendSeeds(_, _, _, _, _, _)
ExtendSeeds(S, dens, v, pool, k, chosen) ==
    IF Len(chosen) = k THEN {chosen}
    ELSE LET used == {chosen[c] : c \in 1..Len(chosen)}
             top  == MaxDensity(dens, pool)
             cand == {i \in pool \ used :
                        /\ \A c \in used : ~Degenerate(S, i, c)
                        /\ ~BelowShare(dens[i], v, top)}
             far  == [i \in cand |->
                        MinOver([c \in used |-> KernelDist(S, i, c)], used)]
             best == {i \in cand : \A j \in cand : far[i] >= far[j]}
         IN  UNION {ExtendSeeds(S, dens, v, pool, k, Append(chosen, i)) : i \in best}

\* Seed selection: the centroid sequences it can return; none when every
\* pool is exhausted before k centroids are found.
SeedSets(S, n, kn, v, n_init, k) ==
    LET dens == [i \in 1..n |-> Density(S, 1..n, kn, i)]
    IN  IF k < 1 \/ n < 1 THEN {}
        ELSE UNION {UNION {ExtendSeeds(S, dens, v, pool, k, <<first>>)
                             : first \in {i \in pool :
                                            \A j \in pool : ~FracLess(dens[i], dens[j])}}
                    : pool \in Pools(n, n_init)}

\* Assignment: every point to the centroid it is most similar to, ties to
\* the lowest cluster id.
AssignLabels(S, n, centroids) ==
    [i \in 1..n |->
        CHOOSE c \in 1..Len(centroids) :
            \A d \in 1..Len(centroids) :
                \/ SimOf(S, i, centroids[c]) > SimOf(S, i, centroids[d])
                \/ SimOf(S, i, centroids[c]) = SimOf(S, i, centroids[d]) /\ c <= d]

Members(labels, c) ==
    {i \in 1..Len(labels) : labels[i] = c}

RECURSIVE SumOver(_, _)
SumOver(f, D) ==
    IF D = {} THEN 0
    ELSE LET j == CHOOSE j \in D : TRUE
         IN  f[j] + SumOver(f, D \ {j})

\* The medoids of cluster c: the members of highest total similarity to the
\* rest of the cluster.
Medoids(S, labels, c) ==
    LET M     == Members(labels, c)
        score == [i \in M |-> SumOver([j \in M \ {i} |-> SimOf(S, i, j)], M \ {i})]
    IN  {i \in M : \A j \in M : score[i] >= score[j]}

\* Recentering: one medoid per cluster; a cluster without members has
\* nothing to recompute its centroid from and keeps it.
Recentered(S, labels, centroids) ==
    Choices([c \in 1..Len(centroids) |->
                IF Members(labels, c) = {} THEN {centroids[c]}
                ELSE Medoids(S, labels, c)])

\* Post-processing: a point of density below v times the highest of its
\* cluster moves to the cluster of its most similar neighbour of higher
\* density.
PostProcessed(S, labels, kn, v) ==
    LET n    == Len(labels)
        dens == [i \in 1..n |-> Density(S, Members(labels, labels[i]), kn, i)]
        low  == {i \in 1..n :
                   BelowShare(dens[i], v, MaxDensity(dens, Members(labels, labels[i])))}
        up   == [i \in 1..n |-> {j \in 1..n \ {i} : FracLess(dens[i], dens[j])}]
    IN  [i \in 1..n |->
            IF i \in low /\ up[i] # {}
            THEN labels[CHOOSE j \in up[i] :
                          \A h \in up[i] :
                              \/ SimOf(S, i, j) > SimOf(S, i, h)
                              \/ SimOf(S, i, j) = SimOf(S, i, h) /\ j <= h]
            ELSE labels[i]]

Clusters(labels, centroids) ==
    [c \in 1..Len(centroids) |->
        [centroid |-> centroids[c], members |-> Members(labels, c),
         n_points |-> Cardinality(Members(labels, c))]]

(***************************************************************************)
(* The state machine: one estimator object and the calls made on it.       *)
(***************************************************************************)
MethodValues == Methods \cup {"knn"}

EstimatorValues == 0..MaxEstimators

MaxSamplesValues ==
    {MSStr("auto"), MSStr("sqrt"), MSInt(2), MSFloat(1, 2), MSFloat(3, 2)}

FitInputs == SeqsOf(FitCoords, 0, MaxLen)

QueryInputs == SeqsOf(QueryCoords, 0, MaxLen)

\* IsoKernel.__init__ on a fresh object.
New(m, t, ms) ==
    /\ method = m
    /\ n_estimators = t
    /\ max_samples = ms
    /\ max_samples_ = Unset
    /\ iso_kernel_ = NoKernel
    /\ is_fitted_ = FALSE
    /\ ever_fitted = FALSE
    /\ last = Call("__init__", <<>>,
                   [max_samples_ |-> Unset, iso_kernel_ |-> NoKernel,
                    is_fitted_ |-> FALSE], "ok")

Init ==
    /\ \E m \in MethodValues, t \in EstimatorValues, ms \in MaxSamplesValues :
          New(m, t, ms)
    /\ ikdc = NoIKDC

Apply(c) ==
    /\ max_samples_' = c.max_samples_
    /\ iso_kernel_' = c.iso_kernel_
    /\ is_fitted_' = c.is_fitted_
    /\ ever_fitted' = (ever_fitted \/ (c.op = "fit" /\ c.outcome = "ok"))
    /\ last' = c
    /\ UNCHANGED params
    /\ UNCHANGED ikdc

Fit(X) ==
    \E c \in FitCall(Self, X) : Apply(c)

Transform(X) ==
    Apply(TransformCall(Self, X))

Similarity(X) ==
    Apply(SimilarityCall(Self, X))

Next ==
    \/ \E X \in FitInputs : Fit(X)
    \/ \E X \in QueryInputs : Transform(X)
    \/ \E X \in QueryInputs : Similarity(X)

Spec == Init /\ [][Next]_vars

(***************************************************************************)
(* The resolution of max_samples: one estimator of any max_samples         *)
(* setting, fitted on n_samples = 0 .. AutoCap + 1 points.                 *)
(***************************************************************************)
ResolveMethodValues == {"anne", "inne", "knn"}

ResolveEstimatorValues == {0, 1}

ResolveMaxSamplesValues ==
    {MSStr("auto"), MSStr("sqrt")}
    \cup {MSInt(i) : i \in {-1, 0, 1, 2, 3, AutoCap, AutoCap + 1, AutoCap + 2}}
    \cup {MSFloat(-1, 2), MSFloat(0, 1), MSFloat(1, 4), MSFloat(1, 2),
          MSFloat(3, 4), MSFloat(1, 1), MSFloat(3, 2)}

\* The dataset of the n points 0, 1, ..., n - 1.
Ramp(n) ==
    [i \in 1..n |-> i - 1]

ResolveInputs == {Ramp(n) : n \in 0..(AutoCap + 1)}

InitResolve ==
    /\ \E m \in ResolveMethodValues, t \in ResolveEstimatorValues,
          ms \in ResolveMaxSamplesValues :
          New(m, t, ms)
    /\ ikdc = NoIKDC

NextResolve ==
    \E X \in ResolveInputs : Fit(X)

SpecResolve == InitResolve /\ [][NextResolve]_vars

(***************************************************************************)
(* IKDC.fit_predict(X), a step at a time.                                  *)
(***************************************************************************)
IKDCMethodValues == {"inne"}

IKDCMaxSamplesValues == {MSInt(2)}

KValues == 1..MaxK

KnValues == {1, 5}

VValues == {Frac(1, 10), Frac(1, 1)}

InitSampleValues == {2, 10}

IKDCCoords == {0, 1, 3}

\* Two clumps of coinciding points and one point between them.
Clumps == <<0, 0, 1, 3, 3>>

IKDCInputs == SeqsOf(IKDCCoords, 0, MaxPoints) \cup {Clumps}

InitIKDC ==
    /\ \E m \in IKDCMethodValues, ms \in IKDCMaxSamplesValues :
          New(m, 2, ms)
    /\ \E k \in KValues, kn \in KnValues, v \in VValues,
          ni \in InitSampleValues, pp \in BOOLEAN :
          ikdc = IKDCState("new", k, kn, v, ni, pp)

\* Step 1: fit the IsoKernel on X and compute the similarity matrix.
FitKernel(X) ==
    /\ ikdc.pc = "new"
    /\ \E c \in FitCall(Self, X) :
          LET fitted == [Self EXCEPT !.max_samples_ = c.max_samples_,
                                     !.iso_kernel_ = c.iso_kernel_,
                                     !.is_fitted_ = c.is_fitted_]
              s == IF c.outcome = "ok" THEN SimilarityCall(fitted, X) ELSE c
          IN  /\ max_samples_' = s.max_samples_
              /\ iso_kernel_' = s.iso_kernel_
              /\ is_fitted_' = s.is_fitted_
              /\ ever_fitted' = (ever_fitted \/ c.outcome = "ok")
              /\ last' = s
              /\ ikdc' = IF s.outcome = "ok"
                         THEN [ikdc EXCEPT !.pc = "seeding", !.n_samples = Len(X),
                                           !.sim = s.sim]
                         ELSE [ikdc EXCEPT !.pc = "failed"]
    /\ UNCHANGED params

\* Steps 2 and 3: densities and seed selection.
SelectSeeds ==
    /\ ikdc.pc = "seeding"
    /\ LET seeds == SeedSets(ikdc.sim, ikdc.n_samples, ikdc.kn, ikdc.v,
                             ikdc.n_init_samples, ikdc.k)
       IN  IF seeds = {}
           THEN ikdc' = [ikdc EXCEPT !.pc = "failed"]
           ELSE \E cs \in seeds :
                   ikdc' = [ikdc EXCEPT !.pc = "assigning", !.centroids = cs,
                                        !.labels_ = [i \in 1..ikdc.n_samples |-> 0]]
    /\ UNCHANGED <<params, attrs, ever_fitted, last>>

\* An assignment pass of a loop that ends only when no label changed.
AssignStepUncapped ==
    LET new == AssignLabels(ikdc.sim, ikdc.n_samples, ikdc.centroids)
        it  == ikdc.n_it + 1
    IN  [ikdc EXCEPT !.labels_ = new, !.n_it = it,
                     !.history = Append(ikdc.history, new),
                     !.pc = IF new = ikdc.labels_
                            THEN "converged" ELSE "recentering"]

\* Step 4, assignment pass: the loop ends when no label changed or the
\* iteration cap is reached.
AssignStep ==
    LET new == AssignLabels(ikdc.sim, ikdc.n_samples, ikdc.centroids)
        it  == ikdc.n_it + 1
    IN  [ikdc EXCEPT !.labels_ = new, !.n_it = it,
                     !.history = Append(ikdc.history, new),
                     !.pc = IF new = ikdc.labels_ \/ it >= IterCap
                            THEN "converged" ELSE "recentering"]

Assign ==
    /\ ikdc.pc = "assigning"
    /\ ikdc' = AssignStep
    /\ UNCHANGED <<params, attrs, ever_fitted, last>>

\* Step 4, medoid update.
Recenter ==
    /\ ikdc.pc = "recentering"
    /\ \E cs \in Recentered(ikdc.sim, ikdc.labels_, ikdc.centroids) :
          ikdc' = [ikdc EXCEPT !.pc = "assigning", !.centroids = cs]
    /\ UNCHANGED <<params, attrs, ever_fitted, last>>

\* Steps 5 and 6: post-processing when enabled, then labels_ and clusters_.
Finish ==
    /\ ikdc.pc = "converged"
    /\ LET final == IF ikdc.is_post_process
                    THEN PostProcessed(ikdc.sim, ikdc.labels_, ikdc.kn, ikdc.v)
                    ELSE ikdc.labels_
       IN  ikdc' = [ikdc EXCEPT !.pc = "done", !.labels_ = final,
                                !.clusters_ = Clusters(final, ikdc.centroids)]
    /\ UNCHANGED <<params, attrs, ever_fitted, last>>

NextIKDC ==
    \/ \E X \in IKDCInputs : FitKernel(X)
    \/ SelectSeeds
    \/ Assign
    \/ Recenter
    \/ Finish

SpecIKDC == InitIKDC /\ [][NextIKDC]_vars

(***************************************************************************)
(* Properties.                                                             *)
(***************************************************************************)
Queries == {"transform", "similarity"}

Returned(op) ==
    last.op = op /\ last.outcome = "ok"

\* The estimators of the fitted ensemble that place x and y in the same cell.
SameCell(x, y) ==
    {e \in 1..Len(iso_kernel_.parts) :
        CellOf(iso_kernel_.parts[e], x) = CellOf(iso_kernel_.parts[e], y)}

\* C1: similarity(X) on m points returns an m x m matrix that is symmetric,
\* has 1.0 on the diagonal and entries in [0, 1]; entry (i, j) is the number
\* of estimators placing points i and j in the same cell over the ensemble
\* size.
C1_SimilarityMatrix ==
    Returned("similarity") =>
        LET m == Len(last.X)
            S == last.sim
        IN  /\ DOMAIN S = 1..m
            /\ \A i \in 1..m :
                /\ DOMAIN S[i] = 1..m
                /\ S[i][i].num = S[i][i].den
                /\ \A j \in 1..m :
                    /\ S[i][j] = S[j][i]
                    /\ S[i][j].den = Len(iso_kernel_.parts)
                    /\ S[i][j].den > 0
                    /\ 0 <= S[i][j].num /\ S[i][j].num <= S[i][j].den
                    /\ S[i][j].num = Cardinality(SameCell(last.X[i], last.X[j]))

\* A similarity strictly between 0 and 1: the estimators disagree on a pair.
C1_Witness ==
    /\ Returned("similarity")
    /\ Len(last.X) = 2
    /\ 0 < last.sim[1][2].num
    /\ last.sim[1][2].num < last.sim[1][2].den

\* The first column of estimator e's block in an embedding row.
RECURSIVE BlockStart(_, _)
BlockStart(parts, e) ==
    IF e = 1 THEN 1 ELSE BlockStart(parts, e - 1) + Width(parts[e - 1])

Ones(row, lo, hi) ==
    {q \in lo..hi : row[q] = 1}

\* C7: every embedding row is binary with exactly one bit set inside each
\* estimator's block, n_estimators bits in all.
C7_OneHotPerBlock ==
    (last.op \in Queries /\ last.outcome = "ok") =>
        LET parts == iso_kernel_.parts
            t     == Len(parts)
        IN  \A i \in 1..Len(last.X) :
                LET row == last.embed[i]
                IN  /\ t = n_estimators
                    /\ Len(row) = BlockStart(parts, t) + Width(parts[t]) - 1
                    /\ \A q \in 1..Len(row) : row[q] \in {0, 1}
                    /\ Cardinality(Ones(row, 1, Len(row))) = n_estimators
                    /\ \A e \in 1..t :
                        Cardinality(Ones(row, BlockStart(parts, e),
                                         BlockStart(parts, e) + Width(parts[e]) - 1)) = 1

\* Two estimators, blocks of more than one cell, two rows that differ.
C7_Witness ==
    /\ Returned("transform")
    /\ Len(iso_kernel_.parts) = 2
    /\ \A e \in 1..2 : Width(iso_kernel_.parts[e]) = 2
    /\ Len(last.X) = 2
    /\ last.embed[1] # last.embed[2]

\* C3: while no fit call has completed successfully, transform and
\* similarity raise.
C3_QueriesBeforeFitRaise ==
    (last.op \in Queries /\ ~ever_fitted) => last.outcome # "ok"

\* transform after a fit that raised on the method: max_samples_ is set, so
\* check_is_fitted passes, and the missing iso_kernel_ raises.
C3_Witness ==
    /\ last.op = "transform"
    /\ ~ever_fitted
    /\ max_samples_.set
    /\ last.n >= 1
    /\ last.outcome = "AttributeError"

\* C8: a transform or similarity call on a fitted estimator leaves
\* max_samples_, iso_kernel_ and is_fitted_ as they were, and a call on the
\* input of the call before it returns the same embedding.
C8_QueriesLeaveFittedState ==
    [][(ever_fitted /\ last'.op \in Queries) =>
          /\ max_samples_' = max_samples_
          /\ iso_kernel_' = iso_kernel_
          /\ is_fitted_' = is_fitted_
          /\ (last.op \in Queries /\ last.X = last'.X /\ last.outcome = "ok") =>
                (last'.outcome = "ok" /\ last'.embed = last.embed)]_vars

C8_Witness ==
    /\ ever_fitted
    /\ Returned("similarity")
    /\ Len(last.X) = 2

\* C6: a fit call that ends in a configuration error constructs and fits no
\* ensemble and leaves max_samples_, iso_kernel_ and is_fitted_ as they were.
ConfigErrors ==
    {"ValueError:method", "ValueError:max_samples_str", "ValueError:max_samples_range"}

C6_ConfigErrorLeavesState ==
    [][(last'.op = "fit" /\ last'.outcome \in ConfigErrors) =>
          /\ ~last'.built
          /\ ~last'.trained
          /\ max_samples_' = max_samples_
          /\ iso_kernel_' = iso_kernel_
          /\ is_fitted_' = is_fitted_]_vars

\* The value the resolution of max_samples is to give on n samples.
Expected(ms, n) ==
    CASE ms.kind = "str" -> IF n < AutoCap THEN n ELSE AutoCap
      [] ms.kind = "int" -> IF ms.i <= n THEN ms.i ELSE n
      [] OTHER -> (ms.num * n) \div ms.den

Resolved ==
    /\ last.op = "fit"
    /\ last.outcome \notin {"ValueError:input", "ValueError:max_samples_str",
                            "ValueError:max_samples_range"}

ResolvesToZero(ms, n) ==
    \/ ms.kind = "int" /\ ms.i = 0
    \/ ms.kind = "float" /\ 0 < ms.num /\ ms.num <= ms.den /\ (ms.num * n) \div ms.den = 0

Returns ==
    ikdc.pc = "done"

Before(p) ==
    IF p = 1 THEN [i \in 1..ikdc.n_samples |-> 0] ELSE ikdc.history[p - 1]

LoopExit ==
    ikdc.pc \in {"converged", "done"} =>
        /\ ikdc.n_it > 0
        /\ \A p \in 1..(ikdc.n_it - 1) : ikdc.history[p] # Before(p)
        /\ \/ ikdc.history[ikdc.n_it] = Before(ikdc.n_it)
           \/ ikdc.n_it = IterCap

InLoop ==
    ikdc.pc \in {"assigning", "recentering", "converged"}

\* Inside the loop the next step exists: a pass can recompute every medoid.
CanStep ==
    ikdc.pc = "recentering" =>
        Recentered(ikdc.sim, ikdc.labels_, ikdc.centroids) # {}

\* The steps left at most: two per pass still allowed, and the return.
StepsLeft ==
    CASE ikdc.pc = "assigning"   -> 2 * (IterCap - ikdc.n_it) + 2
      [] ikdc.pc = "recentering" -> 2 * (IterCap - ikdc.n_it) + 3
      [] ikdc.pc = "converged"   -> 1
      [] OTHER                   -> 0

====
